---- MODULE Spec2Model ----
(***************************************************************************)
(* Model of the four pure functions of the repository:                     *)
(*   parseWhatsAppMessage  (src/src/06-whatsapp-parser.js)                 *)
(*   generateLocalPass     (src/src/05-mumbai-local-pass.js)               *)
(*   processRailwayPNR     (src/src/12-railway-pnr-system.js)              *)
(*   validateForm          (src/unnamed/part_000)                          *)
(*                                                                         *)
(* A JavaScript string is a sequence of one-character strings.  A          *)
(* JavaScript value is a record [t, s]: t is its kind and s its text (the  *)
(* characters of a string, or String(v) for a number or boolean).  Objects *)
(* and arrays carry their fields / elements in f / e.  A call that raises  *)
(* a TypeError has the outcome Thrown.                                     *)
(***************************************************************************)
EXTENDS Integers, Sequences, FiniteSets, TLC

VARIABLES call, arg, ret

vars == <<call, arg, ret>>

(***************************************************************************)
(* JavaScript values                                                       *)
(***************************************************************************)
Undefined == [t |-> "undefined", s |-> <<"u","n","d","e","f","i","n","e","d">>]

Null == [t |-> "null", s |-> <<"n","u","l","l">>]

Str(s) == [t |-> "string", s |-> s]

Num(s) == [t |-> "number", s |-> s]

True == [t |-> "boolean", s |-> <<"t","r","u","e">>]

False == [t |-> "boolean", s |-> <<"f","a","l","s","e">>]

Obj(f) ==
  [t |-> "object",
   s |-> <<"[","o","b","j","e","c","t"," ","O","b","j","e","c","t","]">>,
   f |-> f]

Arr(e) == [t |-> "array", s |-> <<>>, e |-> e]

Thrown == [kind |-> "throw"]

NullResult == [kind |-> "null"]

TypeOf(v) ==
  IF v.t \in {"null", "object", "array"} THEN "object" ELSE v.t

\* property read v.p: undefined when v is not an object holding p
Get(v, p) ==
  IF v.t = "object" /\ p \in DOMAIN v.f THEN v.f[p] ELSE Undefined

IsNullish(v) == v.t \in {"undefined", "null"}

\* Boolean(v)
Truthy(v) ==
  CASE v.t \in {"undefined", "null"} -> FALSE
    [] v.t = "string" -> v.s # <<>>
    [] v.t = "number" -> v.s \notin {<<"0">>, <<"N","a","N">>}
    [] v.t = "boolean" -> v = True
    [] OTHER -> TRUE

(***************************************************************************)
(* String primitives                                                       *)
(***************************************************************************)
SetMin(S) == CHOOSE x \in S : \A y \in S : x <= y

SetMax(S) == CHOOSE x \in S : \A y \in S : x >= y

Whitespace == {" ", "\t", "\n", "\r"}

Digits == {"0", "1", "2", "3", "4", "5", "6", "7", "8", "9"}

UpperLetters ==
  <<"A","B","C","D","E","F","G","H","I","J","K","L","M",
    "N","O","P","Q","R","S","T","U","V","W","X","Y","Z">>

LowerLetters ==
  <<"a","b","c","d","e","f","g","h","i","j","k","l","m",
    "n","o","p","q","r","s","t","u","v","w","x","y","z">>

LowerChar(c) ==
  IF \E i \in 1..26 : UpperLetters[i] = c
  THEN LowerLetters[CHOOSE i \in 1..26 : UpperLetters[i] = c]
  ELSE c

UpperChar(c) ==
  IF \E i \in 1..26 : LowerLetters[i] = c
  THEN UpperLetters[CHOOSE i \in 1..26 : LowerLetters[i] = c]
  ELSE c

RECURSIVE ToLowerCase(_)
ToLowerCase(s) ==
  IF s = <<>> THEN <<>> ELSE <<LowerChar(Head(s))>> \o ToLowerCase(Tail(s))

RECURSIVE ToUpperCase(_)
ToUpperCase(s) ==
  IF s = <<>> THEN <<>> ELSE <<UpperChar(Head(s))>> \o ToUpperCase(Tail(s))

\* pat occurs in s at 0-based position i
MatchAt(s, pat, i) ==
  /\ i >= 0
  /\ i + Len(pat) <= Len(s)
  /\ \A k \in 1..Len(pat) : s[i + k] = pat[k]

IndexOf(s, pat) ==
  LET hits == {i \in 0..(Len(s) - Len(pat)) : MatchAt(s, pat, i)}
  IN  IF hits = {} THEN -1 ELSE SetMin(hits)

LastIndexOf(s, pat) ==
  LET hits == {i \in 0..(Len(s) - Len(pat)) : MatchAt(s, pat, i)}
  IN  IF hits = {} THEN -1 ELSE SetMax(hits)

Includes(s, pat) == IndexOf(s, pat) # -1

StartsWith(s, pat) == MatchAt(s, pat, 0)

\* s.slice(a, b) for 0 <= a, 0 <= b
Slice(s, a, b) ==
  LET lo == IF a > Len(s) THEN Len(s) ELSE a
      hi == IF b > Len(s) THEN Len(s) ELSE b
  IN  IF lo >= hi THEN <<>> ELSE SubSeq(s, lo + 1, hi)

\* s.slice(a) / s.substring(a) for 0 <= a
SliceFrom(s, a) == Slice(s, a, Len(s))

CharAt(s, i) == Slice(s, i, i + 1)

Trim(s) ==
  LET solid == {i \in 1..Len(s) : s[i] \notin Whitespace}
  IN  IF solid = {} THEN <<>> ELSE SubSeq(s, SetMin(solid), SetMax(solid))

\* s.split(sep) for a non-empty separator
RECURSIVE Split(_, _)
Split(s, sep) ==
  LET i == IndexOf(s, sep)
  IN  IF i = -1 THEN <<s>>
      ELSE <<Slice(s, 0, i)>> \o Split(SliceFrom(s, i + Len(sep)), sep)

\* arr[i] of an array of strings: undefined past the end
ElementAt(arr, i) == IF i < Len(arr) THEN Str(arr[i + 1]) ELSE Undefined

RECURSIVE PadEnd(_, _)
PadEnd(s, n) == IF Len(s) >= n THEN s ELSE PadEnd(s \o <<" ">>, n)

AllDigits(s) == \A i \in 1..Len(s) : s[i] \in Digits

\* /^\d+$/.test(s)
DigitsOnly(s) == s # <<>> /\ AllDigits(s)

RECURSIVE Concat(_)
Concat(ss) == IF ss = <<>> THEN <<>> ELSE Head(ss) \o Concat(Tail(ss))

(***************************************************************************)
(* parseWhatsAppMessage                                                    *)
(***************************************************************************)
DashSep == <<" ", "-", " ">>

ColonSep == <<":", " ">>

CommaSep == <<",", " ">>

\* the two UTF-16 code units of the laughing emoji U+1F602
Joy == <<"\\uD83D", "\\uDE02">>

\* U+2764
Heart == <<"\\u2764">>

Smiley == <<":", ")">>

\* wordCountOf without the filter of empty tokens
wordCountOf_NoFilter(text) == Len(Split(text, <<" ">>))

wordCountOf(text) ==
  Len(SelectSeq(Split(text, <<" ">>), LAMBDA word : Trim(word) # <<>>))

\* sentimentOf with the love markers tested first
sentimentOf_LoveFirst(text) ==
  LET textLower == ToLowerCase(text)
  IN  IF \/ Includes(text, Heart)
         \/ Includes(textLower, <<"l","o","v","e">>)
         \/ Includes(textLower, <<"p","y","a","a","r">>)
      THEN "love"
      ELSE IF \/ Includes(text, Joy)
              \/ Includes(text, Smiley)
              \/ Includes(textLower, <<"h","a","h","a">>)
           THEN "funny"
           ELSE "neutral"

sentimentOf(text) ==
  LET textLower == ToLowerCase(text)
  IN  IF \/ Includes(text, Joy)
         \/ Includes(text, Smiley)
         \/ Includes(textLower, <<"h","a","h","a">>)
      THEN "funny"
      ELSE IF \/ Includes(text, Heart)
              \/ Includes(textLower, <<"l","o","v","e">>)
              \/ Includes(textLower, <<"p","y","a","a","r">>)
           THEN "love"
           ELSE "neutral"

dateOf(dateTimePart) == ElementAt(Split(dateTimePart, CommaSep), 0)

timeOf(dateTimePart) == ElementAt(Split(dateTimePart, CommaSep), 1)

\* senderEndIndexOf searching the last ": " instead of the first
senderEndIndexOf_Last(senderMessagePart) ==
  LastIndexOf(senderMessagePart, ColonSep)

senderEndIndexOf(senderMessagePart) == IndexOf(senderMessagePart, ColonSep)

parseWhatsAppMessage(message) ==
  IF TypeOf(message) # "string" THEN NullResult
  ELSE
    LET dateTimeEndIndex == IndexOf(message.s, DashSep)
    IN  IF dateTimeEndIndex = -1 THEN NullResult
        ELSE
          LET dateTimePart == Slice(message.s, 0, dateTimeEndIndex)
              senderMessagePart == SliceFrom(message.s, dateTimeEndIndex + 3)
              senderEndIndex == senderEndIndexOf(senderMessagePart)
          IN  IF senderEndIndex = -1 THEN NullResult
              ELSE
                LET sender == Slice(senderMessagePart, 0, senderEndIndex)
                    text == Trim(SliceFrom(senderMessagePart, senderEndIndex + 2))
                IN  [kind |-> "object",
                     date |-> dateOf(dateTimePart),
                     time |-> timeOf(dateTimePart),
                     sender |-> sender,
                     text |-> text,
                     wordCount |-> wordCountOf(text),
                     sentiment |-> sentimentOf(text)]

(***************************************************************************)
(* generateLocalPass                                                       *)
(***************************************************************************)
Text(s) == [kind |-> "string", s |-> s]

InvalidPass == Text(<<"I","N","V","A","L","I","D"," ","P","A","S","S">>)

RECURSIVE Join(_, _)
Join(lines, sep) ==
  IF lines = <<>> THEN <<>>
  ELSE IF Len(lines) = 1 THEN Head(lines)
       ELSE Head(lines) \o sep \o Join(Tail(lines), sep)

\* typeof v !== 'string' || v.trim() === ''
MissingText(v) == TypeOf(v) # "string" \/ Trim(v.s) = <<>>

passIdOf(classTypeLower, from, to) ==
  ToUpperCase(CharAt(classTypeLower, 0))
    \o Slice(ToUpperCase(from), 0, 3)
    \o Slice(ToUpperCase(to), 0, 3)

\* titleCaseOf leaving the remainder as it is
titleCaseOf_KeepRest(s) == ToUpperCase(CharAt(s, 0)) \o SliceFrom(s, 1)

titleCaseOf(s) == ToUpperCase(CharAt(s, 0)) \o ToLowerCase(SliceFrom(s, 1))

passLines(name, from, to, classTypeLower) ==
  << <<"M","U","M","B","A","I"," ","L","O","C","A","L"," ","P","A","S","S">>,
     <<"-","-","-">>,
     <<"N","a","m","e",":"," ">> \o ToUpperCase(name),
     <<"F","r","o","m",":"," ">> \o titleCaseOf(from),
     <<"T","o",":"," ">> \o titleCaseOf(to),
     <<"C","l","a","s","s",":"," ">> \o ToUpperCase(classTypeLower),
     <<"P","a","s","s"," ","I","D",":"," ">>
       \o passIdOf(classTypeLower, from, to) >>

classAccepted(classTypeLower) ==
  \/ classTypeLower = <<"f","i","r","s","t">>
  \/ classTypeLower = <<"s","e","c","o","n","d">>

generateLocalPass(passenger) ==
  IF TypeOf(passenger) # "object" \/ passenger = Null THEN InvalidPass
  ELSE
    LET name == Get(passenger, "name")
        from == Get(passenger, "from")
        to == Get(passenger, "to")
        classType == Get(passenger, "classType")
    IN  IF \/ MissingText(name)
           \/ MissingText(from)
           \/ MissingText(to)
           \/ MissingText(classType)
        THEN InvalidPass
        ELSE
          LET classTypeLower == ToLowerCase(classType.s)
          IN  IF ~classAccepted(classTypeLower) THEN InvalidPass
              ELSE Text(Join(passLines(name.s, from.s, to.s, classTypeLower),
                             <<"\n">>))

(***************************************************************************)
(* processRailwayPNR                                                       *)
(***************************************************************************)
\* typeof pnr !== 'string' || !/^\d{10}$/.test(pnr)
pnrRejected(pnr) ==
  TypeOf(pnr) # "string" \/ ~(Len(pnr.s) = 10 /\ AllDigits(pnr.s))

\* !train || typeof train !== 'object'
trainRejected(train) == ~Truthy(train) \/ TypeOf(train) # "object"

\* !Array.isArray(passengers) || passengers.length === 0
passengersRejected(passengers) ==
  passengers.t # "array" \/ Len(passengers.e) = 0

pnrFormattedOf(pnr) ==
  Slice(pnr, 0, 3) \o <<"-">> \o Slice(pnr, 3, 6) \o <<"-">> \o SliceFrom(pnr, 6)

trainInfoOf(train, classBooked) ==
  <<"T","r","a","i","n",":"," ">> \o Get(train, "number").s
    \o DashSep \o Get(train, "name").s
    \o <<" ","|"," ">> \o Get(train, "from").s
    \o <<" ","\\u2192"," ">> \o Get(train, "to").s
    \o <<" ","|"," ","C","l","a","s","s",":"," ">> \o classBooked.s

\* statusLabelOf with CAN tested as a prefix
statusLabelOf_CanPrefix(current) ==
  IF StartsWith(current, <<"B">>) \/ StartsWith(current, <<"S">>)
  THEN "CONFIRMED"
  ELSE IF StartsWith(current, <<"W","L">>) THEN "WAITING"
  ELSE IF StartsWith(current, <<"C","A","N">>) THEN "CANCELLED"
  ELSE IF StartsWith(current, <<"R","A","C">>) THEN "RAC"
  ELSE ""

statusLabelOf(current) ==
  IF StartsWith(current, <<"B">>) \/ StartsWith(current, <<"S">>)
  THEN "CONFIRMED"
  ELSE IF StartsWith(current, <<"W","L">>) THEN "WAITING"
  ELSE IF current = <<"C","A","N">> THEN "CANCELLED"
  ELSE IF StartsWith(current, <<"R","A","C">>) THEN "RAC"
  ELSE ""

\* the callback of passengers.map: destructuring null or undefined, calling
\* startsWith on a current that is not a string, and calling padEnd on a
\* name that is not a string each raise a TypeError
processPassenger(p) ==
  IF IsNullish(p) THEN Thrown
  ELSE
    LET name == Get(p, "name")
        current == Get(p, "current")
    IN  IF TypeOf(current) # "string" THEN Thrown
        ELSE IF TypeOf(name) # "string" THEN Thrown
        ELSE
          LET statusLabel == statusLabelOf(current.s)
          IN  [kind |-> "object",
               formattedName |-> PadEnd(name.s, 20) \o <<"(">>
                                   \o Get(p, "age").s \o <<"/">>
                                   \o Get(p, "gender").s \o <<")">>,
               bookingStatus |-> Get(p, "booking"),
               currentStatus |-> current,
               statusLabel |-> statusLabel,
               isConfirmed |-> (statusLabel = "CONFIRMED")]

countLabel(processedPassengers, label) ==
  Cardinality({i \in 1..Len(processedPassengers) :
                 processedPassengers[i].statusLabel = label})

\* allConfirmedOf counting a cancelled passenger as not confirmed
allConfirmedOf_OnlyConfirmed(processedPassengers) ==
  \A i \in 1..Len(processedPassengers) :
    processedPassengers[i].statusLabel = "CONFIRMED"

allConfirmedOf(processedPassengers) ==
  \A i \in 1..Len(processedPassengers) :
    \/ processedPassengers[i].statusLabel = "CONFIRMED"
    \/ processedPassengers[i].statusLabel = "CANCELLED"

anyWaitingOf(processedPassengers) ==
  \E i \in 1..Len(processedPassengers) :
    processedPassengers[i].statusLabel = "WAITING"

chartPreparedOf(processedPassengers) ==
  \A i \in 1..Len(processedPassengers) :
    \/ processedPassengers[i].statusLabel = "CONFIRMED"
    \/ processedPassengers[i].statusLabel = "CANCELLED"

summaryOf(processedPassengers) ==
  [totalPassengers |-> Len(processedPassengers),
   confirmed |-> countLabel(processedPassengers, "CONFIRMED"),
   waiting |-> countLabel(processedPassengers, "WAITING"),
   cancelled |-> countLabel(processedPassengers, "CANCELLED"),
   rac |-> countLabel(processedPassengers, "RAC"),
   allConfirmed |-> allConfirmedOf(processedPassengers),
   anyWaiting |-> anyWaitingOf(processedPassengers)]

mapPassengers(passengers) ==
  [i \in 1..Len(passengers) |-> processPassenger(passengers[i])]

processRailwayPNR(pnrData) ==
  IF ~Truthy(pnrData) \/ TypeOf(pnrData) # "object" THEN NullResult
  ELSE
    LET pnr == Get(pnrData, "pnr")
        train == Get(pnrData, "train")
        classBooked == Get(pnrData, "classBooked")
        passengers == Get(pnrData, "passengers")
    IN  IF pnrRejected(pnr) THEN NullResult
        ELSE IF trainRejected(train) THEN NullResult
        ELSE IF passengersRejected(passengers) THEN NullResult
        ELSE
          LET processedPassengers == mapPassengers(passengers.e)
          IN  IF \E i \in 1..Len(processedPassengers) :
                   processedPassengers[i] = Thrown
              THEN Thrown
              ELSE [kind |-> "object",
                    pnrFormatted |-> pnrFormattedOf(pnr.s),
                    trainInfo |-> trainInfoOf(train, classBooked),
                    passengers |-> processedPassengers,
                    summary |-> summaryOf(processedPassengers),
                    chartPrepared |-> chartPreparedOf(processedPassengers)]

(***************************************************************************)
(* validateForm                                                            *)
(***************************************************************************)
RECURSIVE DecimalValue(_)
DecimalValue(s) ==
  IF s = <<>> THEN 0
  ELSE 10 * DecimalValue(SubSeq(s, 1, Len(s) - 1))
         + (CHOOSE d \in 0..9 :
              <<"0","1","2","3","4","5","6","7","8","9">>[d + 1] = s[Len(s)])

\* parseInt(String(v)): leading white space, an optional sign, then the
\* longest run of digits; NaN when that run is empty
ParseInt(s) ==
  LET solid == {i \in 1..Len(s) : s[i] \notin Whitespace}
      start == IF solid = {} THEN Len(s) + 1 ELSE SetMin(solid)
      signed == start <= Len(s) /\ s[start] \in {"-", "+"}
      first == IF signed THEN start + 1 ELSE start
      stops == {i \in first..Len(s) : s[i] \notin Digits}
      last == IF stops = {} THEN Len(s) ELSE SetMin(stops) - 1
  IN  IF last < first THEN [nan |-> TRUE, v |-> 0]
      ELSE [nan |-> FALSE,
            v |-> (IF signed /\ s[start] = "-" THEN -1 ELSE 1)
                    * DecimalValue(SubSeq(s, first, last))]

nameInvalid(name) ==
  \/ TypeOf(name) # "string"
  \/ Len(Trim(name.s)) < 2
  \/ Len(Trim(name.s)) > 50

emailInvalid(email) ==
  \/ TypeOf(email) # "string"
  \/ IndexOf(email.s, <<"@">>) = -1
  \/ IndexOf(email.s, <<"@">>) # LastIndexOf(email.s, <<"@">>)
  \/ IndexOf(email.s, <<".">>) <= IndexOf(email.s, <<"@">>)

phoneInvalid(phone) ==
  \/ TypeOf(phone) # "string"
  \/ Len(phone.s) # 10
  \/ ~(phone.s # <<>> /\ phone.s[1] \in {"6", "7", "8", "9"})
  \/ ~DigitsOnly(phone.s)

\* Number.isInteger(age) holds of every value parseInt returns except NaN
ageInvalid(ageField) ==
  LET age == ParseInt(ageField.s)
  IN  \/ age.nan
      \/ ~DigitsOnly(ageField.s)
      \/ age.v < 16
      \/ age.v > 100

pincodeInvalid(pincode) ==
  \/ TypeOf(pincode) # "string"
  \/ Len(pincode.s) # 6
  \/ StartsWith(pincode.s, <<"0">>)
  \/ ~DigitsOnly(pincode.s)

stateInvalid(stateField) ==
  LET state == IF IsNullish(stateField) THEN Str(<<>>) ELSE stateField
  IN  TypeOf(state) # "string" \/ Trim(state.s) = <<>>

agreeTermsInvalid(agreeTerms) == ~Truthy(agreeTerms)

FieldNames ==
  {"name", "email", "phone", "age", "pincode", "state", "agreeTerms"}

ErrorMessage ==
  [name |-> "Name must be 2-50 characters",
   email |-> "Invalid email format",
   phone |-> "Invalid Indian phone number",
   age |-> "Age must be an integer between 16 and 100",
   pincode |-> "Invalid Indian pincode",
   state |-> "State is required",
   agreeTerms |-> "Must agree to terms"]

fieldInvalid(k, v) ==
  CASE k = "name" -> nameInvalid(v)
    [] k = "email" -> emailInvalid(v)
    [] k = "phone" -> phoneInvalid(v)
    [] k = "age" -> ageInvalid(v)
    [] k = "pincode" -> pincodeInvalid(v)
    [] k = "state" -> stateInvalid(v)
    [] k = "agreeTerms" -> agreeTermsInvalid(v)

\* reading a property of null or undefined raises a TypeError
validateForm(formData) ==
  IF IsNullish(formData) THEN Thrown
  ELSE
    LET failing == {k \in FieldNames : fieldInvalid(k, Get(formData, k))}
        errors == [k \in failing |-> ErrorMessage[k]]
    IN  [kind |-> "object",
         isValid |-> (Cardinality(DOMAIN errors) = 0),
         errors |-> errors]

(***************************************************************************)
(* Inputs                                                                  *)
(***************************************************************************)
MaxStructFrags == 5

MaxBodyFrags == 3

MaxWordFrags == 4

MaxStationLen == 4

MaxPassengers == 2

MaxEmailLen == 4

\* all sequences of at most n elements of F
SeqsUpTo(F, n) == UNION {[1..k -> F] : k \in 0..n}

\* all strings of at most n characters of the alphabet A
StringsUpTo(A, n) == UNION {[1..k -> A] : k \in 0..n}

StructFrags == {DashSep, ColonSep, CommaSep, <<"a">>, <<":">>}

BodyFrags ==
  {<<" ">>,
   <<"h","a","h","a">>, <<"H","A","h","a">>,
   <<"l","o","v","e">>, <<"L","o","V","e">>,
   <<"P","y","a","a","R">>, Smiley, Joy, Heart}

WordFrags == {<<"a">>, <<" ">>, <<"\t">>, <<"\n">>}

Header == <<"1", ",", " ", "2", " ", "-", " ", "s", ":", " ">>

\* lines of at most ns separators and letters, and lines with a fixed header
\* and a body of at most nb markers or of at most nw words and white space
Messages(ns, nb, nw) ==
  {Undefined, Null, Num(<<"4","2">>), Obj([text |-> Str(<<"a">>)])}
    \cup {Str(Concat(fs)) : fs \in SeqsUpTo(StructFrags, ns)}
    \cup {Str(Header \o Concat(fs)) : fs \in SeqsUpTo(BodyFrags, nb)}
    \cup {Str(Header \o Concat(fs)) : fs \in SeqsUpTo(WordFrags, nw)}

Blanks == {Undefined, Null, Num(<<"5">>), Str(<<>>), Str(<<" ", "\t">>)}

PassNames == Blanks \cup {Str(<<"r","a"," ","S","h">>), Str(<<" ","X","y">>)}

PassFroms(n) == Blanks \cup {Str(x) : x \in StringsUpTo({"d", "A", " "}, n)}

PassTos ==
  Blanks \cup {Str(<<"a","n","d","h","e","r","i">>), Str(<<"V","t">>),
               Str(<<"k","U","R","L","A">>)}

PassClasses ==
  Blanks \cup {Str(<<"f","i","r","s","t">>), Str(<<"F","I","R","S","T">>),
               Str(<<"S","e","c","o","n","d">>), Str(<<"s","e","c","o","n","d">>),
               Str(<<" ","f","i","r","s","t">>), Str(<<"f","i","r","s">>),
               Str(<<"t","h","i","r","d">>), Str(<<"f","i","r","s","t","s">>)}

\* one accepted and one rejected value of every field
FewPassNames == {Str(<<"r","a"," ","S","h">>), Str(<<" ">>)}

FewPassFroms == {Str(<<"d","a","D","a","r">>), Undefined}

FewPassTos == {Str(<<"a","n","d","h","e","r","i">>), Str(<<>>)}

FewPassClasses == {Str(<<"F","i","r","s","t">>), Str(<<"t","h","i","r","d">>)}

PassRecord(n, f, t, c) == Obj([name |-> n, from |-> f, to |-> t, classType |-> c])

PassengerRecords(maxLen) ==
  {Undefined, Null, Str(<<"x">>), Arr(<<>>), Obj([name |-> Str(<<"r","a">>)])}
    \cup {PassRecord(n, f, t, c) :
            n \in FewPassNames, f \in PassFroms(maxLen), t \in FewPassTos,
            c \in FewPassClasses}
    \cup {PassRecord(n, f, t, c) :
            n \in PassNames, f \in FewPassFroms, t \in PassTos,
            c \in PassClasses}

GoodPnr == <<"1","2","3","4","5","6","7","8","9","0">>

Pnrs ==
  {Undefined, Num(GoodPnr), Str(GoodPnr),
   Str(<<"9","8","7","6","5","4","3","2","1","0">>),
   Str(<<"1","2","3","4","5","6","7","8","9">>),
   Str(GoodPnr \o <<"1">>),
   Str(<<"1","2","3","4","5","a","7","8","9","0">>),
   Str(<<"1","2","3","-","4","5","6","-","7","8">>),
   Str(<<>>)}

GoodTrain ==
  Obj([number |-> Str(<<"1","2","3","0","1">>), name |-> Str(<<"R","a","j">>),
       from |-> Str(<<"N","D","L","S">>), to |-> Str(<<"H","W","H">>)])

Trains == {Undefined, Null, Str(<<"1","2","3","0","1">>), Obj(<<>>), GoodTrain}

Currents ==
  {<<"B","1">>, <<"S">>, <<"W","L","8">>, <<"W">>, <<"C","A","N">>,
   <<"C","A","N","X">>, <<"R","A","C","2">>, <<"R","A">>, <<>>}

Passenger(name, current) ==
  Obj([name |-> name, age |-> Num(<<"2","8">>), gender |-> Str(<<"M">>),
       booking |-> Str(<<"W","L","5">>), current |-> current])

PassengerInputs ==
  {Passenger(Str(<<"R","a","h","u","l">>), Str(c)) : c \in Currents}
    \cup {Null,
          Passenger(Str(<<"A","m","i","t">>), Undefined),
          Passenger(Str(<<"A","m","i","t">>), Num(<<"7">>)),
          Passenger(Undefined, Str(<<"B","1">>))}

PassengerLists(n) ==
  {Undefined, Str(<<"B","1">>), Obj([length |-> Num(<<"1">>)])}
    \cup {Arr(ps) : ps \in SeqsUpTo(PassengerInputs, n)}

FewPassengerLists ==
  {Undefined, Arr(<<>>),
   Arr(<<Passenger(Str(<<"R","a","h","u","l">>), Str(<<"B","1">>))>>)}

PnrRecord(pnr, train, passengers) ==
  Obj([pnr |-> pnr, train |-> train, classBooked |-> Str(<<"3","A">>),
       passengers |-> passengers])

PnrInputs(n) ==
  {Undefined, Null, Num(<<"0">>), Str(GoodPnr), Obj(<<>>)}
    \cup {PnrRecord(p, t, ps) :
            p \in Pnrs, t \in Trains, ps \in FewPassengerLists}
    \cup {PnrRecord(Str(GoodPnr), GoodTrain, ps) : ps \in PassengerLists(n)}

RECURSIVE Repeat(_, _)
Repeat(c, n) == IF n = 0 THEN <<>> ELSE <<c>> \o Repeat(c, n - 1)

FormNames ==
  {Undefined, Num(<<"4","2">>), Str(<<>>), Str(<<"a">>), Str(<<" ","a"," ">>),
   Str(<<"a","b">>), Str(<<" ","a","b","\t">>), Str(Repeat("a", 50)),
   Str(<<" ">> \o Repeat("a", 50)), Str(Repeat("a", 51))}

FormEmails(n) ==
  {Undefined, Num(<<"1">>)}
    \cup {Str(x) : x \in StringsUpTo({"a", "@", "."}, n)}

FormPhones ==
  {Undefined, Num(<<"9","8","7","6","5","4","3","2","1","0">>),
   Str(<<"9","8","7","6","5","4","3","2","1","0">>),
   Str(<<"6","0","0","0","0","0","0","0","0","0">>),
   Str(<<"5","8","7","6","5","4","3","2","1","0">>),
   Str(<<"9","8","7","6","5","4","3","2","1">>),
   Str(<<"9","8","7","6","5","4","3","2","1","0","0">>),
   Str(<<"9","8","7","6","5","a","3","2","1","0">>),
   Str(<<>>)}

FormAges ==
  {Undefined, Null, True, Num(<<"N","a","N">>),
   Num(<<"1","5">>), Num(<<"1","6">>), Num(<<"2","0">>), Num(<<"1","0","0">>),
   Num(<<"1","0","1">>), Num(<<"2","0",".","5">>), Num(<<"-","2","0">>),
   Str(<<"2","2">>), Str(<<"0","2","2">>), Str(<<" ","2","2">>),
   Str(<<"2","2","a">>), Str(<<"a","b","c">>), Str(<<"1","0">>), Str(<<>>)}

FormPincodes ==
  {Undefined, Num(<<"4","0","0","0","0","1">>),
   Str(<<"4","0","0","0","0","1">>), Str(<<"0","1","2","3","4","5">>),
   Str(<<"0","1","2","3">>), Str(<<"4","0","0","0","0","1","1">>),
   Str(<<"4","0","0","a","0","1">>), Str(<<>>)}

FormStates ==
  {Undefined, Null, Num(<<"5">>), Str(<<>>), Str(<<" ">>),
   Str(<<"M","H">>), Str(<<" ","G","o","a">>)}

FormAgrees ==
  {Undefined, Null, True, False, Num(<<"0">>), Num(<<"1">>),
   Num(<<"N","a","N">>), Str(<<>>), Str(<<"n","o">>), Obj(<<>>)}

\* one accepted and one rejected value of every field
FewNames == {Str(<<"a","b">>), Str(<<"a">>)}

FewEmails == {Str(<<"a","@","a",".","a">>), Str(<<"a","b">>)}

FewPhones == {Str(<<"9","8","7","6","5","4","3","2","1","0">>), Str(<<>>)}

FewAges == {Num(<<"2","0">>), Num(<<"1","0">>)}

FewPincodes == {Str(<<"4","0","0","0","0","1">>), Str(<<"0","1","2","3">>)}

FewStates == {Str(<<"M","H">>), Null}

FewAgrees == {True, False}

Form(n, e, p, a, c, s, t) ==
  Obj([name |-> n, email |-> e, phone |-> p, age |-> a, pincode |-> c,
       state |-> s, agreeTerms |-> t])

FormInputs(maxLen) ==
  {Undefined, Null, Num(<<"7">>), Str(<<"a">>), Obj(<<>>),
   Obj([name |-> Str(<<"a","b">>)])}
    \cup {Form(n, e, p, a, c, s, t) :
            n \in FormNames, e \in FewEmails, p \in FewPhones, a \in FewAges,
            c \in FewPincodes, s \in FewStates, t \in FewAgrees}
    \cup {Form(n, e, p, a, c, s, t) :
            n \in FewNames, e \in FormEmails(maxLen), p \in FewPhones, a \in FewAges,
            c \in FewPincodes, s \in FewStates, t \in FewAgrees}
    \cup {Form(n, e, p, a, c, s, t) :
            n \in FewNames, e \in FewEmails, p \in FormPhones, a \in FewAges,
            c \in FewPincodes, s \in FewStates, t \in FewAgrees}
    \cup {Form(n, e, p, a, c, s, t) :
            n \in FewNames, e \in FewEmails, p \in FewPhones, a \in FormAges,
            c \in FewPincodes, s \in FewStates, t \in FewAgrees}
    \cup {Form(n, e, p, a, c, s, t) :
            n \in FewNames, e \in FewEmails, p \in FewPhones, a \in FewAges,
            c \in FormPincodes, s \in FewStates, t \in FewAgrees}
    \cup {Form(n, e, p, a, c, s, t) :
            n \in FewNames, e \in FewEmails, p \in FewPhones, a \in FewAges,
            c \in FewPincodes, s \in FormStates, t \in FewAgrees}
    \cup {Form(n, e, p, a, c, s, t) :
            n \in FewNames, e \in FewEmails, p \in FewPhones, a \in FewAges,
            c \in FewPincodes, s \in FewStates, t \in FormAgrees}

(***************************************************************************)
(* One behaviour is one call: the functions share no state.               *)
(***************************************************************************)
Init ==
  /\ call = "idle"
  /\ arg = Undefined
  /\ ret = [kind |-> "none"]

CallParseWhatsAppMessage ==
  /\ call = "idle"
  /\ \E message \in Messages(MaxStructFrags, MaxBodyFrags, MaxWordFrags) :
       /\ call' = "parseWhatsAppMessage"
       /\ arg' = message
       /\ ret' = parseWhatsAppMessage(message)

CallGenerateLocalPass ==
  /\ call = "idle"
  /\ \E passenger \in PassengerRecords(MaxStationLen) :
       /\ call' = "generateLocalPass"
       /\ arg' = passenger
       /\ ret' = generateLocalPass(passenger)

CallProcessRailwayPNR ==
  /\ call = "idle"
  /\ \E pnrData \in PnrInputs(MaxPassengers) :
       /\ call' = "processRailwayPNR"
       /\ arg' = pnrData
       /\ ret' = processRailwayPNR(pnrData)

CallValidateForm ==
  /\ call = "idle"
  /\ \E formData \in FormInputs(MaxEmailLen) :
       /\ call' = "validateForm"
       /\ arg' = formData
       /\ ret' = validateForm(formData)

Next ==
  \/ CallParseWhatsAppMessage
  \/ CallGenerateLocalPass
  \/ CallProcessRailwayPNR
  \/ CallValidateForm

Spec == Init /\ [][Next]_vars

SpecWhatsApp == Init /\ [][CallParseWhatsAppMessage]_vars

SpecPass == Init /\ [][CallGenerateLocalPass]_vars

SpecPNR == Init /\ [][CallProcessRailwayPNR]_vars

SpecForm == Init /\ [][CallValidateForm]_vars

(***************************************************************************)
(* Properties                                                              *)
(***************************************************************************)
HasPrefix(s, p) == Len(s) >= Len(p) /\ SubSeq(s, 1, Len(p)) = p

\* p occurs in s at the 1-based position i
Occurs(s, p, i) ==
  i >= 1 /\ i + Len(p) - 1 <= Len(s) /\ SubSeq(s, i, i + Len(p) - 1) = p

Contains(s, p) == \E i \in 1..Len(s) : Occurs(s, p, i)

ContainsAnyCase(s, p) ==
  \E i \in 1..Len(s) :
    /\ i + Len(p) - 1 <= Len(s)
    /\ \A k \in 1..Len(p) : LowerChar(s[i + k - 1]) = p[k]

\* t is r without its leading and trailing white space
IsTrimOf(t, r) ==
  /\ t = <<>> \/ (t[1] \notin Whitespace /\ t[Len(t)] \notin Whitespace)
  /\ \E a \in 0..Len(r) :
       /\ a + Len(t) <= Len(r)
       /\ SubSeq(r, a + 1, a + Len(t)) = t
       /\ \A i \in 1..Len(r) :
            (i <= a \/ i > a + Len(t)) => r[i] \in Whitespace

Accepted(f) == call = f /\ ret.kind = "object"

ExpectedLabel(current) ==
  CASE HasPrefix(current, <<"B">>) \/ HasPrefix(current, <<"S">>) -> "CONFIRMED"
    [] HasPrefix(current, <<"W","L">>) -> "WAITING"
    [] current = <<"C","A","N">> -> "CANCELLED"
    [] HasPrefix(current, <<"R","A","C">>) -> "RAC"
    [] OTHER -> ""

\* C1: in every report of processRailwayPNR the i-th output passenger is
\* the i-th input passenger, its statusLabel is CONFIRMED for a current
\* starting with B or S, else WAITING for WL, else CANCELLED for exactly CAN,
\* else RAC for a current starting with RAC, else empty; isConfirmed holds
\* exactly when statusLabel is CONFIRMED.
C1_StatusLabels ==
  Accepted("processRailwayPNR") =>
    LET input == arg.f.passengers.e
        output == ret.passengers
    IN  /\ Len(output) = Len(input)
        /\ \A i \in 1..Len(input) :
             /\ output[i].currentStatus = input[i].f.current
             /\ output[i].bookingStatus = input[i].f.booking
             /\ HasPrefix(output[i].formattedName, input[i].f.name.s)
             /\ output[i].statusLabel = ExpectedLabel(input[i].f.current.s)
             /\ output[i].isConfirmed <=> (output[i].statusLabel = "CONFIRMED")

C1_Witness ==
  /\ Accepted("processRailwayPNR")
  /\ Len(ret.passengers) = 2
  /\ arg.f.passengers.e[1].f.current.s = <<"C","A","N","X">>
  /\ ret.passengers[1].statusLabel = ""
  /\ ret.passengers[2].statusLabel = "CANCELLED"

Labels == {ret.passengers[i].statusLabel : i \in 1..Len(ret.passengers)}

PnrDefect(pnrData) ==
  LET pnr == Get(pnrData, "pnr")
  IN  ~(pnr.t = "string" /\ Len(pnr.s) = 10 /\ \A i \in 1..10 : pnr.s[i] \in Digits)

TrainDefect(pnrData) == Get(pnrData, "train").t # "object"

PassengersDefect(pnrData) ==
  LET passengers == Get(pnrData, "passengers")
  IN  ~(passengers.t = "array" /\ passengers.e # <<>>)

\* C3: processRailwayPNR returns null exactly when the input is not a
\* non-null record, or pnr is not a string of 10 digits, or train is
\* missing, or passengers is not a non-empty sequence; for every other input
\* it returns a report whose pnrFormatted is the digits grouped 3-3-4 with
\* "-" between the groups.
C3_NullExactlyOnDefect ==
  call = "processRailwayPNR" =>
    LET defect == \/ arg.t # "object"
                  \/ PnrDefect(arg)
                  \/ TrainDefect(arg)
                  \/ PassengersDefect(arg)
    IN  /\ (ret.kind = "null") <=> defect
        /\ ~defect =>
             /\ ret.kind = "object"
             /\ Len(ret.pnrFormatted) = 12
             /\ ret.pnrFormatted[4] = "-"
             /\ ret.pnrFormatted[8] = "-"
             /\ SelectSeq(ret.pnrFormatted, LAMBDA c : c # "-") = arg.f.pnr.s

\* the seven field rules as C4 states them
NameRule(v) == v.t = "string" /\ Len(Trim(v.s)) \in 2..50

EmailRule(v) ==
  /\ v.t = "string"
  /\ Cardinality({i \in 1..Len(v.s) : v.s[i] = "@"}) = 1
  /\ \E i \in 1..Len(v.s), j \in 1..Len(v.s) :
       v.s[i] = "@" /\ v.s[j] = "." /\ i < j

PhoneRule(v) ==
  /\ v.t = "string"
  /\ Len(v.s) = 10
  /\ \A i \in 1..Len(v.s) : v.s[i] \in Digits
  /\ v.s[1] \in {"6", "7", "8", "9"}

AgeRule(v) ==
  /\ v.t \in {"string", "number"}
  /\ v.s # <<>>
  /\ \A i \in 1..Len(v.s) : v.s[i] \in Digits
  /\ DecimalValue(v.s) \in 16..100

PincodeRule(v) ==
  /\ v.t = "string"
  /\ Len(v.s) = 6
  /\ \A i \in 1..Len(v.s) : v.s[i] \in Digits
  /\ v.s[1] # "0"

StateRule(v) ==
  /\ v.t = "string"
  /\ \E i \in 1..Len(v.s) : v.s[i] \notin Whitespace

AgreeTermsRule(v) == Truthy(v)

FieldRule(k, v) ==
  CASE k = "name" -> NameRule(v)
    [] k = "email" -> EmailRule(v)
    [] k = "phone" -> PhoneRule(v)
    [] k = "age" -> AgeRule(v)
    [] k = "pincode" -> PincodeRule(v)
    [] k = "state" -> StateRule(v)
    [] k = "agreeTerms" -> AgreeTermsRule(v)

\* C4: for every field-set record validateForm reports an error for a field
\* exactly when that field's rule fails, and isValid exactly when all seven
\* rules hold, the email rule being: text with exactly one "@" and at least
\* one "." somewhere after that "@".
C4_ErrorsExactlyOnRuleFailure ==
  (call = "validateForm" /\ arg.t = "object") =>
    /\ ret.kind = "object"
    /\ \A k \in FieldNames :
         (k \in DOMAIN ret.errors) <=> ~FieldRule(k, Get(arg, k))
    /\ ret.isValid <=> (\A k \in FieldNames : FieldRule(k, Get(arg, k)))
    /\ ret.isValid <=> (DOMAIN ret.errors = {})

\* number of maximal runs of characters outside the set Sep in s that hold
\* at least one character that is not white space
Runs(s, Sep) ==
  Cardinality({i \in 1..Len(s) :
    /\ s[i] \notin Sep
    /\ i = 1 \/ s[i - 1] \in Sep
    /\ \E j \in i..Len(s) :
         /\ s[j] \notin Whitespace
         /\ \A k \in i..j : s[k] \notin Sep})

\* C5 as stated: wordCount is the number of non-empty tokens of the trimmed
\* body delimited by any white space (space, tab, newline).
C5_WhitespaceDelimitedWords ==
  Accepted("parseWhatsAppMessage") => ret.wordCount = Runs(ret.text, Whitespace)

\* C5 (amended): wordCount is the number of tokens of the trimmed body
\* delimited by the space character alone that hold a character other than
\* white space.
C5_SpaceDelimitedWords ==
  Accepted("parseWhatsAppMessage") => ret.wordCount = Runs(ret.text, {" "})

C5_Witness ==
  /\ Accepted("parseWhatsAppMessage")
  /\ ret.text = <<"a", "\t", "a">>
  /\ ret.wordCount = 1

FunnyMarked(text) ==
  \/ Contains(text, Joy)
  \/ Contains(text, Smiley)
  \/ ContainsAnyCase(text, <<"h","a","h","a">>)

LoveMarked(text) ==
  \/ Contains(text, Heart)
  \/ ContainsAnyCase(text, <<"l","o","v","e">>)
  \/ ContainsAnyCase(text, <<"p","y","a","a","r">>)

\* the part of the line after the first ": " that follows the first " - "
BodyOf(line) ==
  LET afterDash == SliceFrom(line, IndexOf(line, DashSep) + 3)
  IN  SliceFrom(afterDash, IndexOf(afterDash, ColonSep) + 2)

\* C6: sentiment is funny when the body holds a funny marker, else love when
\* it holds a love marker, else neutral; funny wins when both are present.
C6_FunnyBeforeLove ==
  Accepted("parseWhatsAppMessage") =>
    LET body == BodyOf(arg.s)
    IN  /\ ret.sentiment = (IF FunnyMarked(body) THEN "funny"
                            ELSE IF LoveMarked(body) THEN "love"
                            ELSE "neutral")
        /\ (FunnyMarked(body) /\ LoveMarked(body)) => ret.sentiment = "funny"

C6_Witness ==
  /\ Accepted("parseWhatsAppMessage")
  /\ ret.text = <<"L","o","V","e"," ","H","A","h","a">>
  /\ ret.sentiment = "funny"

DashPositions(m) == {i \in 1..Len(m) : Occurs(m, DashSep, i)}

ColonPositionsAfter(m, d) ==
  {j \in 1..Len(m) : j >= d + 3 /\ Occurs(m, ColonSep, j)}

\* C7: parseWhatsAppMessage returns null exactly when the input is not text,
\* or holds no " - ", or holds no ": " after the first " - "; otherwise
\* sender is the text between the first " - " and the first ": " after it,
\* text is the rest trimmed, and sender holds no ": ".
C7_SeparatorSearch ==
  call = "parseWhatsAppMessage" =>
    LET m == arg.s
        d == SetMin(DashPositions(m))
        c == SetMin(ColonPositionsAfter(m, d))
        rejected == \/ arg.t # "string"
                    \/ DashPositions(m) = {}
                    \/ ColonPositionsAfter(m, d) = {}
    IN  /\ (ret.kind = "null") <=> rejected
        /\ ~rejected =>
             /\ ret.kind = "object"
             /\ ret.sender = SubSeq(m, d + 3, c - 1)
             /\ IsTrimOf(ret.text, SubSeq(m, c + 2, Len(m)))
             /\ ~Contains(ret.sender, ColonSep)

C7_Witness ==
  /\ Accepted("parseWhatsAppMessage")
  /\ Contains(ret.text, ColonSep)
  /\ ret.sender = <<"a">>

FieldAbsent(v) ==
  v.t # "string" \/ \A i \in 1..Len(v.s) : v.s[i] \in Whitespace

TitleCased(s) ==
  IF s = <<>> THEN <<>>
  ELSE <<UpperChar(s[1])>> \o [i \in 1..(Len(s) - 1) |-> LowerChar(s[i + 1])]

FirstThree(s) == IF Len(s) <= 3 THEN s ELSE SubSeq(s, 1, 3)

\* C8: generateLocalPass returns INVALID PASS exactly when the input is not
\* a non-null record, or one of name, from, to, classType is not text or is
\* empty after trimming, or classType is neither first nor second in any
\* letter case; otherwise it returns seven lines joined by newlines: the
\* title, the rule, Name in upper case, From and To with the first character
\* in upper and the rest in lower case, Class in upper case, and Pass ID:
\* the first letter of the class and the first three characters of from and
\* of to, all in upper case.
C8_PassOrSentinel ==
  call = "generateLocalPass" =>
    LET name == Get(arg, "name")
        from == Get(arg, "from")
        to == Get(arg, "to")
        classType == Get(arg, "classType")
        class == ToUpperCase(classType.s)
        invalid == \/ arg.t # "object"
                   \/ FieldAbsent(name) \/ FieldAbsent(from)
                   \/ FieldAbsent(to) \/ FieldAbsent(classType)
                   \/ class \notin {<<"F","I","R","S","T">>,
                                    <<"S","E","C","O","N","D">>}
    IN  /\ ret.kind = "string"
        /\ (ret = InvalidPass) <=> invalid
        /\ ~invalid =>
             LET lines == Split(ret.s, <<"\n">>)
             IN  /\ Len(lines) = 7
                 /\ lines[1] = <<"M","U","M","B","A","I"," ","L","O","C","A",
                                 "L"," ","P","A","S","S">>
                 /\ lines[2] = <<"-","-","-">>
                 /\ lines[3] = <<"N","a","m","e",":"," ">> \o ToUpperCase(name.s)
                 /\ lines[4] = <<"F","r","o","m",":"," ">> \o TitleCased(from.s)
                 /\ lines[5] = <<"T","o",":"," ">> \o TitleCased(to.s)
                 /\ lines[6] = <<"C","l","a","s","s",":"," ">> \o class
                 /\ lines[7] = <<"P","a","s","s"," ","I","D",":"," ">>
                                 \o <<class[1]>>
                                 \o ToUpperCase(FirstThree(from.s))
                                 \o ToUpperCase(FirstThree(to.s))

C8_Witness ==
  /\ call = "generateLocalPass"
  /\ ret.kind = "string"
  /\ ret # InvalidPass
  /\ arg.f.from.s = <<"d", "A", "A", "d">>
  /\ arg.f.classType.s = <<"F","i","r","s","t">>

\* C9: no call of the four functions raises an exception.
C9_NoException == ret.kind # "throw"

\* C10: in every result of parseWhatsAppMessage date and time are strings,
\* and date, ", ", time is the segment of the line before the first " - ".
C10_DateTimeSegment ==
  Accepted("parseWhatsAppMessage") =>
    /\ ret.date.t = "string"
    /\ ret.time.t = "string"
    /\ ret.date.s \o CommaSep \o ret.time.s
         = SubSeq(arg.s, 1, SetMin(DashPositions(arg.s)) - 1)

====
